---- MODULE Spec2Model ----
(***************************************************************************)
(* A model of code-input.js: the template registry with its queue of       *)
(* elements waiting for a template, the window-load gate, the life cycle   *)
(* of a <code-input> element (connectedCallback, setup, disconnected-      *)
(* Callback, the MutationObserver that watches its attributes) and the     *)
(* rendering path (value setter, update, escapeHtml), the reactions to     *)
(* attribute changes, addEventListener / removeEventListener and the      *)
(* reset of the element's form.                                            *)
(*                                                                         *)
(* Texts are sequences of one-character strings.  A handler is an operator *)
(* from a state record to a state record, so that a handler which calls    *)
(* another handler (registerTemplate -> connectedCallback -> setup ->      *)
(* update) is one step.  A handler that throws keeps the assignments it    *)
(* made before the throw and sets the field threw.  The highlight function *)
(* the plugin hooks and the event listeners are supplied by the page: they *)
(* are taken to return normally and to leave the state modelled here       *)
(* alone.                                                                  *)
(***************************************************************************)
EXTENDS Naturals, Sequences, FiniteSets, TLC

VARIABLES
    usedTemplates,                  \* codeInput.usedTemplates: name -> descriptor
    defaultTemplate,                \* codeInput.defaultTemplate
    templateNotYetRegisteredQueue,  \* codeInput.templateNotYetRegisteredQueue
    windowLoaded,                   \* codeInput.windowLoaded
    loadFired,                      \* the window's load event has been dispatched
    loadListeners,                  \* callbacks waiting on window's "load" event
    isConnected,                    \* element.isConnected
    attrTemplate,                   \* the element's template attribute
    innerHTML,                      \* the element's markup content before setup
    template,                       \* element.template
    textareaElement,                \* element.textareaElement (NoNode before setup)
    preElement,                     \* element.preElement
    codeElement,                    \* element.codeElement
    value_,                         \* element._value
    ignoreValueUpdate,              \* element.ignoreValueUpdate
    textareaValue,                  \* element.textareaElement.value
    codeInnerHTML,                  \* what update wrote to codeElement.innerHTML before highlighting
    initialValue,                   \* element.initialValue
    classList,                      \* element.classList
    loadCallbacks,                  \* the updates the element holds on its own code-input_load event
    observers,                      \* the record queues of the MutationObservers observing the element
    observerLive,                   \* whether element.mutationObserver is one of them
    attrs,                          \* the element's other attributes (Null: absent)
    textareaAttrs,                  \* the attributes of element.textareaElement
    placeholder,                    \* element.textareaElement.placeholder
    codeClassList,                  \* element.codeElement.classList
    preClassList,                   \* element.preElement.classList
    boundEventCallbacks,            \* element.boundEventCallbacks: source text -> bound function
    textareaListeners,              \* the page's listeners on element.textareaElement
    hostListeners,                  \* the listeners on the element itself
    bindCount,                      \* how many functions were bound to the element
    setupRuns,                      \* how often the body of setup ran for the element
    loadDispatched,                 \* how often code-input_load was dispatched on the element
    lastThrew,                      \* whether the last step threw, or reported, an exception
    lastCall,                       \* the last step, when it assigned or typed a text or
                                    \* passed registerTemplate a malformed descriptor
    lastTrace,                      \* the calls the last step made to the page's functions:
                                    \* plugin hooks, highlight functions, event listeners
    text, escaped, unescaped, pc    \* the escapeHtml / unescapeHtml round trip

vars == <<usedTemplates, defaultTemplate, templateNotYetRegisteredQueue, windowLoaded, loadFired,
          loadListeners, isConnected, attrTemplate, innerHTML, template, textareaElement,
          preElement, codeElement, value_, ignoreValueUpdate, textareaValue, codeInnerHTML, initialValue,
          classList, loadCallbacks, observers, observerLive, setupRuns, loadDispatched,
          attrs, textareaAttrs, placeholder, codeClassList, preClassList,
          boundEventCallbacks, textareaListeners, hostListeners, bindCount,
          lastThrew, lastCall, lastTrace, text, escaped, unescaped, pc>>

elemVars == <<usedTemplates, defaultTemplate, templateNotYetRegisteredQueue, windowLoaded, loadFired,
              loadListeners, isConnected, attrTemplate, innerHTML, template, textareaElement,
              preElement, codeElement, value_, ignoreValueUpdate, textareaValue, codeInnerHTML, initialValue,
              classList, loadCallbacks, observers, observerLive, setupRuns, loadDispatched,
              attrs, textareaAttrs, placeholder, codeClassList, preClassList,
              boundEventCallbacks, textareaListeners, hostListeners, bindCount,
              lastThrew, lastCall, lastTrace>>

textVars == <<text, escaped, unescaped, pc>>

----------------------------------------------------------------------------
(* Bounds *)

MaxQueue == 2        \* entries of one templateNotYetRegisteredQueue array
MaxListeners == 2    \* callbacks waiting on the window's load event
MaxObservers == 2    \* MutationObservers observing one element
MaxRecords == 1      \* undelivered template records of one MutationObserver
MaxAttrRecords == 2  \* its undelivered records of the other attributes
MaxCallbacks == 2    \* updates one element holds on its code-input_load event
MaxBinds == 2        \* functions bound to one element by addEventListener
MaxLen == 3          \* length of a text typed or assigned in SpecRender
MaxTextLen == 4      \* length of a text in SpecText

----------------------------------------------------------------------------
(* Values *)

Elems == {"e1", "e2"}
Names == {"X", "Y"}
Undefined == "undefined"     \* JavaScript undefined; as an object key, the string "undefined"
Null == "null"               \* null: an absent attribute, a node not created yet
QueueKeys == Names \cup {Undefined}

NL == "\n"
AMP == <<"&", "a", "m", "p", ";">>
LT == <<"&", "l", "t", ";">>
GT == <<"&", "g", "t", ";">>
UndefinedText == <<Undefined>>
\* String(undefined), what a textarea shows once its value is assigned undefined
UndefinedString == <<"u", "n", "d", "e", "f", "i", "n", "e", "d">>
NoNode == <<>>               \* null where a node is expected
Node(tag, n) == <<tag, n>>   \* the n-th node with this tag created for an element

\* the attributes of the model besides template: lang, one attribute that
\* textareaSyncAttributes names, one that its wildcard aria-* matches
AttrNames == {"lang", "name", "aria-label", "value"}
AttrValues == {"js", "py"}

\* codeInput.observedAttributes after the wildcards have been taken out
observedAttributes ==
    {"value", "placeholder", "lang", "template", "min", "max", "type", "pattern",
     "autocomplete", "autocorrect", "autofocus", "cols", "dirname", "disabled", "form",
     "maxlength", "minlength", "name", "readonly", "required", "rows", "spellcheck", "wrap"}

\* codeInput.textareaSyncAttributes after the wildcards have been taken out
textareaSyncAttributes ==
    {"value", "min", "max", "type", "pattern", "autocomplete", "autocorrect", "autofocus",
     "cols", "dirname", "disabled", "form", "maxlength", "minlength", "name",
     "placeholder", "readonly", "required", "rows", "spellcheck", "wrap"}

\* name.match(reg) for the one wildcard of both lists, aria-*
MatchesWildcard(name) == name \in {"aria-label"}

\* String.prototype.toLowerCase on the attribute values of the model
toLowerCase(v) == IF v = "JS" THEN "js" ELSE IF v = "PY" THEN "py" ELSE v

\* codeInput.textareaSyncEvents
textareaSyncEvents == {"change", "selectionchange", "invalid", "input"}

\* the event types the page listens to: two of the above, one that
\* removeEventListener names and one that it does not, and one other type
EventTypes == {"change", "input", "click"}

\* the page's listener functions, and their source texts: L1 and L2 are two
\* functions of the same text
Listeners == {"L1", "L2", "L3"}
ListenerText(fn) == IF fn = "L3" THEN "g" ELSE "f"
ArrowText == "() => { this.textareaElement.addEventListener(type, boundCallback); }"
SourceTexts == {ListenerText(fn) : fn \in Listeners} \cup {ArrowText}

\* the class "language-" + lang
Language(lang) == <<"language-", lang>>

\* an attribute value as the text the value setter gets: the setter takes
\* null for the empty string
Chars(v) ==
    CASE v = "js" -> <<"j", "s">>
      [] v = "py" -> <<"p", "y">>
      [] v = "JS" -> <<"J", "S">>
      [] OTHER -> <<>>

RECURSIVE SeqsUpTo(_, _)
SeqsUpTo(S, n) ==
    IF n = 0 THEN {<<>>}
    ELSE LET shorter == SeqsUpTo(S, n - 1)
         IN shorter \cup {Append(s, c) : s \in shorter, c \in S}

----------------------------------------------------------------------------
(* Template descriptors.  A descriptor is an object; the model names each  *)
(* object and looks its fields up.  A field holds "true" or "false" when   *)
(* it is a boolean, "function" when it is callable, and "undefined" when   *)
(* the object has no such member.                                          *)

PluginInstances == {"p1", "p2"}      \* objects created by new codeInput.Plugin(...)

prism ==
    [highlight |-> "function", preElementStyled |-> "true", isCode |-> "true",
     includeCodeInputInHighlightFunc |-> "false", pluginsIsArray |-> TRUE, plugins |-> <<"p1">>]

hljs ==
    [highlight |-> "function", preElementStyled |-> "false", isCode |-> "true",
     includeCodeInputInHighlightFunc |-> "false", pluginsIsArray |-> TRUE, plugins |-> <<>>]

characterLimit ==
    [highlight |-> "function", preElementStyled |-> "true", isCode |-> "false",
     includeCodeInputInHighlightFunc |-> "true", pluginsIsArray |-> TRUE, plugins |-> <<"p1", "p2">>]

Descriptor(id) ==
    CASE id = "prism" -> prism
      [] id = "hljs" -> hljs
      [] id = "characterLimit" -> characterLimit
      [] id = "noHighlight" -> [prism EXCEPT !.highlight = "undefined"]
      [] id = "badInclude" -> [prism EXCEPT !.includeCodeInputInHighlightFunc = "undefined"]
      [] id = "badPreStyled" -> [hljs EXCEPT !.preElementStyled = "undefined"]
      [] id = "badIsCode" -> [hljs EXCEPT !.isCode = "undefined"]
      [] id = "pluginsNotArray" -> [prism EXCEPT !.pluginsIsArray = FALSE, !.plugins = <<>>]
      [] id = "notAPlugin" -> [characterLimit EXCEPT !.plugins = <<"p1", "object">>]

ValidDescriptors == {"prism", "hljs", "characterLimit"}
MalformedDescriptors ==
    {"noHighlight", "badInclude", "badPreStyled", "badIsCode", "pluginsNotArray", "notAPlugin"}
Descriptors == ValidDescriptors \cup MalformedDescriptors

IsBoolean(x) == x \in {"true", "false"}

----------------------------------------------------------------------------
(* Texts *)

\* String.prototype.replace with a global RegExp of a literal pattern:
\* leftmost matches, left to right, not overlapping.
RECURSIVE ReplaceAll(_, _, _)
ReplaceAll(s, pat, rep) ==
    IF Len(s) < Len(pat) THEN s
    ELSE IF SubSeq(s, 1, Len(pat)) = pat
         THEN rep \o ReplaceAll(SubSeq(s, Len(pat) + 1, Len(s)), pat, rep)
         ELSE <<Head(s)>> \o ReplaceAll(Tail(s), pat, rep)

\* escapeHtml with its two replacements in the other order
escapeHtmlLtFirst(t) == ReplaceAll(ReplaceAll(t, <<"<">>, LT), <<"&">>, AMP)

escapeHtml(t) == ReplaceAll(ReplaceAll(t, <<"&">>, AMP), <<"<">>, LT)

unescapeHtml(t) ==
    ReplaceAll(ReplaceAll(ReplaceAll(t, AMP, <<"&">>), LT, <<"<">>), GT, <<">">>)

EndsWithNewline(t) == Len(t) > 0 /\ t[Len(t)] = NL

\* update without its handling of a final newline
DisplayCopyNoSpace(t) == t

\* update with a space added after every newline
DisplayCopyEveryNewline(t) == ReplaceAll(t, <<NL>>, <<NL, " ">>)

\* the copy of the value that update sends to the code element
DisplayCopy(t) == IF EndsWithNewline(t) THEN Append(t, " ") ELSE t

----------------------------------------------------------------------------
(* The state as one record, for the handlers *)

State ==
    [usedTemplates |-> usedTemplates,
     defaultTemplate |-> defaultTemplate,
     templateNotYetRegisteredQueue |-> templateNotYetRegisteredQueue,
     windowLoaded |-> windowLoaded,
     loadFired |-> loadFired,
     loadListeners |-> loadListeners,
     isConnected |-> isConnected,
     attrTemplate |-> attrTemplate,
     innerHTML |-> innerHTML,
     template |-> template,
     textareaElement |-> textareaElement,
     preElement |-> preElement,
     codeElement |-> codeElement,
     value_ |-> value_,
     ignoreValueUpdate |-> ignoreValueUpdate,
     textareaValue |-> textareaValue,
     codeInnerHTML |-> codeInnerHTML,
     initialValue |-> initialValue,
     classList |-> classList,
     loadCallbacks |-> loadCallbacks,
     observers |-> observers,
     observerLive |-> observerLive,
     setupRuns |-> setupRuns,
     loadDispatched |-> loadDispatched,
     attrs |-> attrs,
     textareaAttrs |-> textareaAttrs,
     placeholder |-> placeholder,
     codeClassList |-> codeClassList,
     preClassList |-> preClassList,
     boundEventCallbacks |-> boundEventCallbacks,
     textareaListeners |-> textareaListeners,
     hostListeners |-> hostListeners,
     bindCount |-> bindCount,
     trace |-> <<>>,         \* the calls made to the page's functions in this step
     threw |-> FALSE,        \* the handler running has thrown
     uncaught |-> FALSE]     \* an event listener or callback of this step has thrown

Throw(st) == [st EXCEPT !.threw = TRUE]

\* an exception in an event listener or in a callback is reported, and the
\* dispatch goes on with the next one
Reported(st) == [st EXCEPT !.threw = FALSE, !.uncaught = st.uncaught \/ st.threw]

\* usedTemplates[key], and `key in usedTemplates`
Lookup(st, key) == IF key \in Names THEN st.usedTemplates[key] ELSE Undefined
Registered(st, key) == Lookup(st, key) # Undefined

----------------------------------------------------------------------------
(* The element's handlers *)

\* something the step does that the page can tell the moment of: a call of
\* one of the page's functions (plugin names the hook's plugin, the highlight
\* function's template or the listener), the creation of the element's
\* nodes, a write of the code element, the code-input_load event
Traced(st, call) == [st EXCEPT !.trace = Append(@, call)]

Done(st, e, what, args) ==
    Traced(st, [call |-> what, plugin |-> Null, elem |-> e, args |-> args])

\* pluginEvt reads this.template.plugins: a TypeError when the element has no
\* template.  Every plugin is a codeInput.Plugin, which has all five hooks;
\* the hooks themselves are the page's.
RECURSIVE callPlugins(_, _, _, _, _, _)
callPlugins(st, e, plugins, i, eventName, args) ==
    IF i > Len(plugins) THEN st
    ELSE callPlugins(
             Traced(st, [call |-> eventName, plugin |-> plugins[i], elem |-> e, args |-> args]),
             e, plugins, i + 1, eventName, args)

pluginEvt(st, e, eventName, args) ==
    IF st.template[e] = Undefined THEN Throw(st)
    ELSE callPlugins(st, e, Descriptor(st.template[e]).plugins, 1, eventName, args)

\* this.template.highlight(resultElement, this) or (resultElement)
highlight(st, e) ==
    Traced(st, [call |-> "highlight", plugin |-> st.template[e], elem |-> e,
                args |-> IF Descriptor(st.template[e]).includeCodeInputInHighlightFunc = "true"
                         THEN <<"code", e>> ELSE <<"code">>])

\* the part of update after it has written the code element
highlightWithHooks(st, e) ==
    LET s1 == pluginEvt(st, e, "beforeHighlight", <<>>)
    IN  IF s1.threw THEN s1
        ELSE pluginEvt(highlight(s1, e), e, "afterHighlight", <<>>)

RECURSIVE update(_, _, _)

\* set value(val): undefined is taken for the empty string
valueSetter(st, e, val) ==
    LET v == IF val = UndefinedText THEN <<>> ELSE val
    IN  update([st EXCEPT !.value_[e] = v], e, v)

\* update keeping the escaped text as the element's value
updateEscapedValue(st, e, value) ==
    IF st.textareaElement[e] = NoNode
    THEN [st EXCEPT !.loadCallbacks[e] = Append(@, value)]
    ELSE LET s1 == [st EXCEPT !.value_[e] = escapeHtml(DisplayCopy(value)),
                              !.textareaValue[e] = value,
                              !.codeInnerHTML[e] = escapeHtml(DisplayCopy(value))]
         IN  highlightWithHooks(s1, e)

\* update(value).  The assignment this.value = value runs the setter, whose
\* own call of update returns at once because ignoreValueUpdate is set
\* meanwhile.  With value undefined the textarea, whose value differs from
\* it, is assigned undefined and shows the text "undefined", and
\* value[value.length - 1] is a TypeError.
update(st, e, value) ==
    IF st.ignoreValueUpdate[e] THEN st
    ELSE IF st.textareaElement[e] = NoNode
    THEN [st EXCEPT !.loadCallbacks[e] = Append(@, value)]
    ELSE LET s0 == valueSetter([st EXCEPT !.ignoreValueUpdate[e] = TRUE], e, value)
         IN  IF value = UndefinedText
             THEN Throw([s0 EXCEPT !.ignoreValueUpdate[e] = FALSE,
                                   !.textareaValue[e] = UndefinedString])
             ELSE LET s1 == [s0 EXCEPT !.ignoreValueUpdate[e] = FALSE,
                                       !.textareaValue[e] = value,
                                       !.codeInnerHTML[e] = escapeHtml(DisplayCopy(value))]
                  IN  highlightWithHooks(Done(s1, e, "innerHTML", <<s1.codeInnerHTML[e]>>), e)

\* a reset that renders the current value again
formResetCallbackCurrentValue(st, e) == update(st, e, st.value_[e])

\* formResetCallback
formResetCallback(st, e) == update(st, e, st.initialValue[e])

getTemplateName(st, e) ==
    IF st.attrTemplate[e] = Null THEN st.defaultTemplate ELSE st.attrTemplate[e]

\* getTemplate: the descriptor, or undefined with the element pushed on the queue
getTemplate(st, e) ==
    LET templateName == getTemplateName(st, e)
    IN  IF Registered(st, templateName)
        THEN [result |-> Lookup(st, templateName), st |-> st]
        ELSE [result |-> Undefined,
              st |-> [st EXCEPT !.templateNotYetRegisteredQueue[templateName] = Append(@, e)]]

\* A function object.  kind "function" is a listener of the page, fn its
\* name; kind "attach" is the arrow function addEventListener creates to
\* attach bound function number attachN of fn to the textarea for attachType.
\* this and n are set on the result of bind: n numbers the functions bound to
\* one element, so two results of bind are never the same object.
Function(fn) ==
    [kind |-> "function", fn |-> fn, this |-> Null, n |-> 0, attachType |-> Null, attachN |-> 0]

AttachArrow(type, boundCallback) ==
    [kind |-> "attach", fn |-> boundCallback.fn, this |-> Null, n |-> 0,
     attachType |-> type, attachN |-> boundCallback.n]

\* String(listener): the property key boundEventCallbacks[listener] uses
SourceText(listener) ==
    IF listener.kind = "attach" THEN ArrowText ELSE ListenerText(listener.fn)

\* listener.bind(this)
bind(st, e, listener) == [listener EXCEPT !.this = e, !.n = st.bindCount[e] + 1]

\* EventTarget.addEventListener: a callback already listed for the type is
\* not added again
addListener(list, type, callback) ==
    LET entry == [type |-> type, callback |-> callback]
    IN  IF \E i \in 1..Len(list) : list[i] = entry THEN list ELSE Append(list, entry)

\* EventTarget.removeEventListener
removeListener(list, type, callback) ==
    SelectSeq(list, LAMBDA x : ~(x.type = type /\ x.callback = callback))

\* addEventListener(type, listener), without options
addEventListenerOnHost(st, e, type, listener) ==
    LET boundCallback == bind(st, e, listener)
        s1 == [st EXCEPT !.bindCount[e] = boundCallback.n,
                         !.boundEventCallbacks[e][SourceText(listener)] = boundCallback.n]
    IN  [s1 EXCEPT !.hostListeners[e] = addListener(@, type, boundCallback)]

RECURSIVE addEventListener(_, _, _, _)
addEventListener(st, e, type, listener) ==
    LET boundCallback == bind(st, e, listener)
        s1 == [st EXCEPT !.bindCount[e] = boundCallback.n,
                         !.boundEventCallbacks[e][SourceText(listener)] = boundCallback.n]
    IN  IF type \in textareaSyncEvents
        THEN IF s1.textareaElement[e] = NoNode
             THEN addEventListener(s1, e, "code-input_load", AttachArrow(type, boundCallback))
             ELSE [s1 EXCEPT !.textareaListeners[e] = addListener(@, type, boundCallback)]
        ELSE [s1 EXCEPT !.hostListeners[e] = addListener(@, type, boundCallback)]

\* removeEventListener(type, listener), without options.  boundCallback is
\* undefined (number 0) when no listener of that source text was added.
removeEventListener(st, e, type, listener) ==
    LET boundCallback == st.boundEventCallbacks[e][SourceText(listener)]
    IN  IF type \in {"change", "selectionchange"}
        THEN IF st.textareaElement[e] = NoNode THEN Throw(st)
             ELSE [st EXCEPT !.textareaListeners[e] =
                       SelectSeq(@, LAMBDA x : ~(x.type = type /\ x.callback.n = boundCallback))]
        ELSE [st EXCEPT !.hostListeners[e] = removeListener(@, type, listener)]

\* one listener of an event runs.  A listener of the page is recorded in the
\* trace with the element it was bound to; the arrow of addEventListener
\* attaches its bound function to the textarea, `this` being the element
\* whose addEventListener created it.
invoke(st, e, type, callback) ==
    IF callback.kind = "attach"
    THEN IF st.textareaElement[e] = NoNode THEN Reported(Throw(st))
         ELSE [st EXCEPT !.textareaListeners[e] =
                   addListener(@, callback.attachType,
                               [Function(callback.fn) EXCEPT !.this = e, !.n = callback.attachN])]
    ELSE Traced(st, [call |-> "listener", plugin |-> callback.fn, elem |-> callback.this,
                     args |-> <<type>>])

\* the listeners a target had for the type when the event was dispatched
\* run in the order they were added
RECURSIVE callListeners(_, _, _, _, _)
callListeners(st, e, list, i, type) ==
    IF i > Len(list) THEN st
    ELSE callListeners(IF list[i].type = type THEN invoke(st, e, type, list[i].callback) ELSE st,
                       e, list, i + 1, type)

\* dispatchEvent(new CustomEvent("code-input_load")): the updates deferred
\* by update run in the order they were added, and so do the other listeners
\* of the event
RECURSIVE runLoadCallbacks(_, _, _)
runLoadCallbacks(st, e, i) ==
    IF i > Len(st.loadCallbacks[e]) THEN st
    ELSE runLoadCallbacks(Reported(update(st, e, st.loadCallbacks[e][i])), e, i + 1)

dispatchLoad(st, e) ==
    LET s0 == Done([st EXCEPT !.loadDispatched[e] = @ + 1], e, "code-input_load", <<>>)
        s1 == runLoadCallbacks(s0, e, 1)
    IN  callListeners(s1, e, s1.hostListeners[e], 1, "code-input_load")

getAttribute(st, e, name) ==
    IF name = "template" THEN st.attrTemplate[e]
    ELSE IF name \in AttrNames THEN st.attrs[e][name]
    ELSE Null

\* the text setup starts from: the content of the element, or else its
\* value attribute, or else the empty string
firstValue(st, e) ==
    IF unescapeHtml(st.innerHTML[e]) # <<>> THEN unescapeHtml(st.innerHTML[e])
    ELSE Chars(getAttribute(st, e, "value"))

\* the part of setup between its two hooks: the attributes are read, the
\* textarea, the pre and the code element are created and the content of
\* the element is cleared
createElements(st, e) ==
    LET lang == getAttribute(st, e, "lang")
        n == st.setupRuns[e] + 1
    IN  [Done(st, e, "createElement", <<>>) EXCEPT
            !.initialValue[e] = firstValue(st, e),
            !.textareaValue[e] = firstValue(st, e),
            !.innerHTML[e] = <<>>,
            !.placeholder[e] =
                IF getAttribute(st, e, "placeholder") \notin {Null, ""}
                THEN getAttribute(st, e, "placeholder")
                ELSE IF lang \notin {Null, ""} THEN lang ELSE "",
            !.textareaAttrs[e] =
                [a \in AttrNames |->
                    IF a \in textareaSyncAttributes \/ MatchesWildcard(a)
                    THEN st.attrs[e][a] ELSE Null],
            !.textareaElement[e] = Node("textarea", n),
            !.preElement[e] = Node("pre", n),
            !.codeElement[e] = Node("code", n),
            !.codeClassList[e] =
                IF Descriptor(st.template[e]).isCode = "true" /\ lang \notin {Null, ""}
                THEN {Language(lang)} ELSE {},
            !.preClassList[e] = {},
            !.setupRuns[e] = @ + 1]

\* setup's class for a template that styles the pre element
styleHost(st, e) ==
    IF Descriptor(st.template[e]).preElementStyled = "true"
    THEN [st EXCEPT !.classList[e] = @ \cup {"code-input_pre-element-styled"}]
    ELSE st

\* afterElementsAdded, the first render with the value setup read, and the
\* load event
finishSetup(st, e) ==
    LET s4 == update(pluginEvt(st, e, "afterElementsAdded", <<>>), e, st.initialValue[e])
    IN  IF s4.threw THEN s4 ELSE dispatchLoad(s4, e)

\* the first render before the afterElementsAdded hooks
finishSetupRenderFirst(st, e) ==
    LET sa == update(st, e, st.initialValue[e])
        s4 == IF sa.threw THEN sa ELSE pluginEvt(sa, e, "afterElementsAdded", <<>>)
    IN  IF s4.threw THEN s4 ELSE dispatchLoad(s4, e)

\* the body of setup with the first render before the afterElementsAdded hooks
setupBodyRenderFirst(st, e) ==
    LET s1 == [st EXCEPT !.classList[e] = @ \cup {"code-input_registered"}]
    IN  IF s1.template[e] = Undefined THEN Throw(s1)       \* this.template.preElementStyled
        ELSE finishSetupRenderFirst(
                 createElements(pluginEvt(styleHost(s1, e), e, "beforeElementsAdded", <<>>), e), e)

\* the body of setup, after its guard
setupBody(st, e) ==
    LET s1 == [st EXCEPT !.classList[e] = @ \cup {"code-input_registered"}]
    IN  IF s1.template[e] = Undefined THEN Throw(s1)       \* this.template.preElementStyled
        ELSE finishSetup(
                 createElements(pluginEvt(styleHost(s1, e), e, "beforeElementsAdded", <<>>), e), e)

\* setup without the guard on the textarea
setupNoGuard(st, e) == setupBody(st, e)

setup(st, e) == IF st.textareaElement[e] # NoNode THEN st ELSE setupBody(st, e)

\* the callback connectedCallback hands to runOnceWindowLoaded
setupCallback(st, e) ==
    LET s == setup(st, e)
    IN  IF s.threw THEN s ELSE [s EXCEPT !.classList[e] = @ \cup {"code-input_loaded"}]

RECURSIVE runOnceWindowLoaded(_, _)

connectedCallback(st, e) ==
    LET got == getTemplate(st, e)
        s1 == [got.st EXCEPT !.template[e] = got.result]
        s2 == IF got.result # Undefined
              THEN runOnceWindowLoaded(
                       [s1 EXCEPT !.classList[e] = @ \cup {"code-input_registered"}],
                       [kind |-> "setup", elem |-> e])
              ELSE s1
    IN  IF s2.threw THEN s2
        ELSE [s2 EXCEPT !.observers[e] = Append(@, <<>>), !.observerLive[e] = TRUE]

runCallback(st, cb) ==
    IF cb.kind = "setup" THEN setupCallback(st, cb.elem) ELSE connectedCallback(st, cb.elem)

\* runOnceWindowLoaded not waiting for the load event
runOnceWindowLoadedAtOnce(st, cb) == runCallback(st, cb)

runOnceWindowLoaded(st, cb) ==
    IF st.windowLoaded THEN runCallback(st, cb)
    ELSE [st EXCEPT !.loadListeners = Append(@, cb)]

\* disconnectedCallback: this.mutationObserver.disconnect() drops its records
disconnectedCallback(st, e) ==
    IF st.observerLive[e]
    THEN [st EXCEPT !.observers[e] = SubSeq(@, 1, Len(@) - 1), !.observerLive[e] = FALSE]
    ELSE st

\* case "template" of attributeChangedCallback
templateChanged(st, e, newValue) ==
    LET t == Lookup(st, IF newValue \in {Null, ""} THEN st.defaultTemplate ELSE newValue)
        s2 == [st EXCEPT !.template[e] = t]
    IN  IF t = Undefined THEN Throw(s2)      \* this.template.preElementStyled
        ELSE LET s3 == IF Descriptor(t).preElementStyled = "true"
                       THEN [s2 EXCEPT !.classList[e] =
                                 @ \cup {"code-input_pre-element-styled"}]
                       ELSE [s2 EXCEPT !.classList[e] =
                                 @ \ {"code-input_pre-element-styled"}]
             IN  update(s3, e, s3.value_[e])

\* case "lang" of attributeChangedCallback.  code.classList is a TypeError
\* while the code element is null, oldValue.toLowerCase() one when the
\* attribute was absent before.
langChanged(st, e, oldValue, newValue) ==
    LET new == IF newValue = Null THEN Null ELSE toLowerCase(newValue)
    IN  IF new # Null /\ st.codeElement[e] = NoNode THEN Throw(st)
        ELSE IF new # Null /\ Language(new) \in st.codeClassList[e] THEN st   \* already updated
        ELSE IF oldValue = Null \/ st.codeElement[e] = NoNode THEN Throw(st)
        ELSE LET old == toLowerCase(oldValue)
                 s2 == [st EXCEPT
                           !.codeClassList[e] =
                               (@ \ {Language(old), Language("none")})
                                   \cup (IF new \notin {Null, ""} THEN {Language(new)} ELSE {}),
                           !.preClassList[e] = @ \ {Language(old), Language("none")},
                           !.placeholder[e] = IF @ = old THEN new ELSE @]
             IN  update(s2, e, s2.value_[e])

\* the default case of attributeChangedCallback: a sync attribute is set on
\* the textarea, or removed from it
syncAttributeChanged(st, e, name, newValue) ==
    IF name \in textareaSyncAttributes \/ MatchesWildcard(name)
    THEN IF st.textareaElement[e] = NoNode THEN Throw(st)
         ELSE IF name \in AttrNames THEN [st EXCEPT !.textareaAttrs[e][name] = newValue]
         ELSE st
    ELSE st

\* attributeChangedCallback on a connected element
attributeChangedBody(st, e, name, oldValue, newValue) ==
    LET s1 == pluginEvt(st, e, "attributeChanged", <<name, oldValue, newValue>>)
    IN  IF s1.threw THEN s1
        ELSE CASE name = "value" -> valueSetter(s1, e, Chars(newValue))
               [] name = "template" -> templateChanged(s1, e, newValue)
               [] name = "lang" -> langChanged(s1, e, oldValue, newValue)
               [] name = "placeholder" ->
                     IF s1.textareaElement[e] = NoNode THEN Throw(s1)
                     ELSE [s1 EXCEPT !.placeholder[e] = newValue]
               [] OTHER -> syncAttributeChanged(s1, e, name, newValue)

\* attributeChangedCallback without the test of isConnected
attributeChangedCallbackAlways(st, e, name, oldValue, newValue) ==
    attributeChangedBody(st, e, name, oldValue, newValue)

attributeChangedCallback(st, e, name, oldValue, newValue) ==
    IF ~st.isConnected[e] THEN st
    ELSE attributeChangedBody(st, e, name, oldValue, newValue)

\* mutationObserverCallback: the first record of the batch whose attribute
\* is an observed one is handed to attributeChangedCallback, with the value
\* the attribute has now, and the callback returns
RECURSIVE mutationObserverCallbackFrom(_, _, _, _)
mutationObserverCallbackFrom(st, e, mutationList, i) ==
    IF i > Len(mutationList) THEN st
    ELSE LET mutation == mutationList[i]
         IN  IF mutation.attributeName \in observedAttributes
                \/ MatchesWildcard(mutation.attributeName)
             THEN attributeChangedCallback(st, e, mutation.attributeName, mutation.oldValue,
                                           getAttribute(st, e, mutation.attributeName))
             ELSE mutationObserverCallbackFrom(st, e, mutationList, i + 1)

mutationObserverCallback(st, e, mutationList) ==
    mutationObserverCallbackFrom(st, e, mutationList, 1)

----------------------------------------------------------------------------
(* The registry *)

\* the checks registerTemplate makes before it stores the template
validTemplate(tid) ==
    LET d == Descriptor(tid)
    IN  /\ d.highlight = "function"
        /\ IsBoolean(d.includeCodeInputInHighlightFunc)
        /\ IsBoolean(d.preElementStyled)
        /\ IsBoolean(d.isCode)
        /\ d.pluginsIsArray
        /\ \A i \in 1..Len(d.plugins) : d.plugins[i] \in PluginInstances

\* one of registerTemplate's loops over a queue: elem.template = template,
\* then elem.connectedCallback() once the window has loaded
RECURSIVE flushQueue(_, _, _, _)
flushQueue(st, elems, i, tid) ==
    IF i > Len(elems) \/ st.threw THEN st
    ELSE flushQueue(
             runOnceWindowLoaded([st EXCEPT !.template[elems[i]] = tid],
                                 [kind |-> "connectedCallback", elem |-> elems[i]]),
             elems, i + 1, tid)

\* registerTemplate without its loop over the queue of the name registered
registerTemplateNoFlush(st, templateName, tid) ==
    IF ~validTemplate(tid) THEN Throw(st)
    ELSE LET s1 == [st EXCEPT !.usedTemplates[templateName] = tid]
         IN  IF s1.defaultTemplate # Undefined THEN s1
             ELSE LET s3 == [s1 EXCEPT !.defaultTemplate = templateName]
                  IN  flushQueue(s3, s3.templateNotYetRegisteredQueue[Undefined], 1, tid)

\* registerTemplate making every template registered the default
registerTemplateAlwaysDefault(st, templateName, tid) ==
    IF ~validTemplate(tid) THEN Throw(st)
    ELSE LET s1 == [st EXCEPT !.usedTemplates[templateName] = tid]
             s2 == flushQueue(s1, s1.templateNotYetRegisteredQueue[templateName], 1, tid)
         IN  IF s2.threw THEN s2
             ELSE LET s3 == [s2 EXCEPT !.defaultTemplate = templateName]
                  IN  flushQueue(s3, s3.templateNotYetRegisteredQueue[Undefined], 1, tid)

\* registerTemplate storing the template before it checks it
registerTemplateStoresFirst(st, templateName, tid) ==
    LET s1 == [st EXCEPT !.usedTemplates[templateName] = tid]
    IN  IF ~validTemplate(tid) THEN Throw(s1)
        ELSE LET s2 == flushQueue(s1, s1.templateNotYetRegisteredQueue[templateName], 1, tid)
             IN  IF s2.threw \/ s2.defaultTemplate # Undefined THEN s2
                 ELSE LET s3 == [s2 EXCEPT !.defaultTemplate = templateName]
                      IN  flushQueue(s3, s3.templateNotYetRegisteredQueue[Undefined], 1, tid)

registerTemplate(st, templateName, tid) ==
    IF ~validTemplate(tid) THEN Throw(st)
    ELSE LET s1 == [st EXCEPT !.usedTemplates[templateName] = tid]
             s2 == flushQueue(s1, s1.templateNotYetRegisteredQueue[templateName], 1, tid)
         IN  IF s2.threw \/ s2.defaultTemplate # Undefined THEN s2
             ELSE LET s3 == [s2 EXCEPT !.defaultTemplate = templateName]
                  IN  flushQueue(s3, s3.templateNotYetRegisteredQueue[Undefined], 1, tid)

----------------------------------------------------------------------------
(* The host: the window's load event and the delivery of mutation records *)

\* the load event: the library's own listener, added first, sets windowLoaded;
\* then the callbacks runOnceWindowLoaded added, in order
RECURSIVE runLoadListeners(_, _, _)
runLoadListeners(st, listeners, i) ==
    IF i > Len(listeners) THEN st
    ELSE runLoadListeners(Reported(runCallback(st, listeners[i])), listeners, i + 1)

windowLoad(st) ==
    runLoadListeners([st EXCEPT !.loadFired = TRUE, !.windowLoaded = TRUE,
                               !.loadListeners = <<>>],
                     st.loadListeners, 1)

ElemOrder == <<"e1", "e2">>

\* the microtask that notifies the mutation observers: each observer with
\* records gets its callback called with them, and its queue is emptied
RECURSIVE notifyObservers(_, _, _)
notifyObservers(st, e, i) ==
    IF i > Len(st.observers[e]) THEN st
    ELSE LET records == st.observers[e][i]
             s1 == [st EXCEPT !.observers[e][i] = <<>>]
         IN  notifyObservers(
                 IF records = <<>> THEN s1
                 ELSE Reported(mutationObserverCallback(s1, e, records)),
                 e, i + 1)

RECURSIVE notifyAll(_, _)
notifyAll(st, k) ==
    IF k > Len(ElemOrder) THEN st
    ELSE notifyAll(notifyObservers(st, ElemOrder[k], 1), k + 1)

\* setAttribute("template", n) or removeAttribute("template"): every observer
\* of the element queues a record with the old value
setTemplateAttribute(st, e, n) ==
    LET record == [attributeName |-> "template", oldValue |-> st.attrTemplate[e]]
    IN  [st EXCEPT !.attrTemplate[e] = n,
                   !.observers[e] = [i \in 1..Len(@) |-> Append(@[i], record)]]

\* setAttribute(name, v) or removeAttribute(name) for another attribute
setAttribute(st, e, name, v) ==
    LET record == [attributeName |-> name, oldValue |-> st.attrs[e][name]]
    IN  [st EXCEPT !.attrs[e][name] = v,
                   !.observers[e] = [i \in 1..Len(@) |-> Append(@[i], record)]]

PendingRecords(st) ==
    \E e \in Elems : \E i \in 1..Len(st.observers[e]) : st.observers[e][i] # <<>>

\* syncScroll reads this.template.preElementStyled to pick the node it scrolls
syncScroll(st, e) == IF st.template[e] = Undefined THEN Throw(st) ELSE st

\* the textarea's input listener: update(textarea.value), then sync_scroll()
inputListener(st, e, v) ==
    LET s1 == update([st EXCEPT !.textareaValue[e] = v], e, v)
    IN  IF s1.threw THEN s1 ELSE syncScroll(s1, e)

\* an input event on the textarea holding v: the listener setup added runs
\* first, then the listeners the page had attached
textareaInput(st, e, v) ==
    callListeners(Reported(inputListener(st, e, v)), e, st.textareaListeners[e], 1, "input")

----------------------------------------------------------------------------
(* Inputs *)

\* the markup between the element's tags, as innerHTML serialises it
InitialHTML(e) == IF e = "e1" THEN <<>> ELSE <<"a", "&", "l", "t", ";", NL>>

\* the descriptors passed to registerTemplate in Spec and in SpecRender
SpecDescriptors == {"prism", "hljs"}
RenderDescriptors == {"prism", "characterLimit"}

\* the texts assigned and typed in SpecRender
RenderAlphabet == {NL, "&", "<"}
RenderTexts ==
    SeqsUpTo(RenderAlphabet, MaxLen)
        \cup {<<"a", NL, "b">>, <<"a", ">", " ", NL>>, LT, GT \o <<NL>>, AMP \o <<NL, NL>>}

\* the texts of SpecText
TextAlphabet == {"&", "<", ">", "l", "g", "t", ";", "a"}
TextInputs ==
    SeqsUpTo(TextAlphabet, MaxTextLen)
        \cup {AMP, AMP \o LT, AMP \o <<"l", "t", ";">>, <<"&">> \o AMP, LT \o GT}

----------------------------------------------------------------------------
(* The specification *)

WithinBounds(st) ==
    /\ \A k \in QueueKeys : Len(st.templateNotYetRegisteredQueue[k]) <= MaxQueue
    /\ Len(st.loadListeners) <= MaxListeners
    /\ \A e \in Elems :
        /\ Len(st.observers[e]) <= MaxObservers
        /\ \A i \in 1..Len(st.observers[e]) :
            LET records == st.observers[e][i]
                ofTemplate == {j \in 1..Len(records) : records[j].attributeName = "template"}
            IN  /\ Cardinality(ofTemplate) <= MaxRecords
                /\ Len(records) - Cardinality(ofTemplate) <= MaxAttrRecords
        /\ Len(st.loadCallbacks[e]) <= MaxCallbacks
        /\ st.bindCount[e] <= MaxBinds

NoCall == [op |-> "none", elem |-> Null, text |-> <<>>, type |-> Null, listener |-> Null]

\* the step that takes the program to the state record st; r is what
\* lastCall records of it
Step(st, r) ==
    /\ WithinBounds(st)
    /\ usedTemplates' = st.usedTemplates
    /\ defaultTemplate' = st.defaultTemplate
    /\ templateNotYetRegisteredQueue' = st.templateNotYetRegisteredQueue
    /\ windowLoaded' = st.windowLoaded
    /\ loadFired' = st.loadFired
    /\ loadListeners' = st.loadListeners
    /\ isConnected' = st.isConnected
    /\ attrTemplate' = st.attrTemplate
    /\ innerHTML' = st.innerHTML
    /\ template' = st.template
    /\ textareaElement' = st.textareaElement
    /\ preElement' = st.preElement
    /\ codeElement' = st.codeElement
    /\ value_' = st.value_
    /\ ignoreValueUpdate' = st.ignoreValueUpdate
    /\ textareaValue' = st.textareaValue
    /\ codeInnerHTML' = st.codeInnerHTML
    /\ initialValue' = st.initialValue
    /\ classList' = st.classList
    /\ loadCallbacks' = st.loadCallbacks
    /\ observers' = st.observers
    /\ observerLive' = st.observerLive
    /\ setupRuns' = st.setupRuns
    /\ loadDispatched' = st.loadDispatched
    /\ attrs' = st.attrs
    /\ textareaAttrs' = st.textareaAttrs
    /\ placeholder' = st.placeholder
    /\ codeClassList' = st.codeClassList
    /\ preClassList' = st.preClassList
    /\ boundEventCallbacks' = st.boundEventCallbacks
    /\ textareaListeners' = st.textareaListeners
    /\ hostListeners' = st.hostListeners
    /\ bindCount' = st.bindCount
    /\ lastThrew' = (st.threw \/ st.uncaught)
    /\ lastCall' = r
    /\ lastTrace' = st.trace
    /\ UNCHANGED textVars

Becomes(st) == Step(st, NoCall)

\* the state once the script of the library has been evaluated, before the
\* load event of the window (fired false) or after it (fired true)
InitPage(fired) ==
    /\ usedTemplates = [n \in Names |-> Undefined]
    /\ defaultTemplate = Undefined
    /\ templateNotYetRegisteredQueue = [k \in QueueKeys |-> <<>>]
    /\ windowLoaded = FALSE
    /\ loadFired = fired
    /\ loadListeners = <<>>
    /\ isConnected = [e \in Elems |-> FALSE]
    /\ attrTemplate = [e \in Elems |-> Null]
    /\ innerHTML = [e \in Elems |-> InitialHTML(e)]
    /\ template = [e \in Elems |-> Undefined]
    /\ textareaElement = [e \in Elems |-> NoNode]
    /\ preElement = [e \in Elems |-> NoNode]
    /\ codeElement = [e \in Elems |-> NoNode]
    /\ value_ = [e \in Elems |-> <<>>]
    /\ ignoreValueUpdate = [e \in Elems |-> FALSE]
    /\ textareaValue = [e \in Elems |-> <<>>]
    /\ codeInnerHTML = [e \in Elems |-> <<>>]
    /\ initialValue = [e \in Elems |-> UndefinedText]
    /\ classList = [e \in Elems |-> {}]
    /\ loadCallbacks = [e \in Elems |-> <<>>]
    /\ observers = [e \in Elems |-> <<>>]
    /\ observerLive = [e \in Elems |-> FALSE]
    /\ setupRuns = [e \in Elems |-> 0]
    /\ loadDispatched = [e \in Elems |-> 0]
    /\ attrs = [e \in Elems |-> [n \in AttrNames |-> Null]]
    /\ textareaAttrs = [e \in Elems |-> [n \in AttrNames |-> Null]]
    /\ placeholder = [e \in Elems |-> ""]
    /\ codeClassList = [e \in Elems |-> {}]
    /\ preClassList = [e \in Elems |-> {}]
    /\ boundEventCallbacks = [e \in Elems |-> [k \in SourceTexts |-> 0]]
    /\ textareaListeners = [e \in Elems |-> <<>>]
    /\ hostListeners = [e \in Elems |-> <<>>]
    /\ bindCount = [e \in Elems |-> 0]
    /\ lastThrew = FALSE
    /\ lastCall = NoCall
    /\ lastTrace = <<>>

InitElems == InitPage(FALSE)

Init ==
    /\ InitElems
    /\ text = <<>> /\ escaped = <<>> /\ unescaped = <<>> /\ pc = "idle"

\* the element is inserted into the document
Attach(e) ==
    /\ ~isConnected[e]
    /\ Becomes(connectedCallback([State EXCEPT !.isConnected[e] = TRUE], e))

\* the element is removed from the document
Detach(e) ==
    /\ isConnected[e]
    /\ Becomes(disconnectedCallback([State EXCEPT !.isConnected[e] = FALSE], e))

\* a script sets or removes the element's template attribute
SetTemplateAttribute(e, n) ==
    /\ n # Null \/ attrTemplate[e] # Null
    /\ Becomes(setTemplateAttribute(State, e, n))

\* a script calls element.addEventListener(type, fn)
AddEventListener(e, type, fn) ==
    Step(addEventListener(State, e, type, Function(fn)),
         [NoCall EXCEPT !.op = "addEventListener", !.elem = e, !.type = type, !.listener = fn])

\* a script calls element.removeEventListener(type, fn)
RemoveEventListener(e, type, fn) ==
    Step(removeEventListener(State, e, type, Function(fn)),
         [NoCall EXCEPT !.op = "removeEventListener", !.elem = e, !.type = type, !.listener = fn])

\* an event of the type happens: on the textarea for the types of
\* textareaSyncEvents, on the element itself for the others
DispatchEvent(e, type) ==
    /\ ~PendingRecords(State)
    /\ type \in textareaSyncEvents => textareaElement[e] # NoNode /\ isConnected[e]
    /\ Step(IF type = "input" THEN textareaInput(State, e, textareaValue[e])
            ELSE IF type \in textareaSyncEvents
                 THEN callListeners(State, e, textareaListeners[e], 1, type)
                 ELSE callListeners(State, e, hostListeners[e], 1, type),
            [NoCall EXCEPT !.op = "dispatchEvent", !.elem = e, !.type = type])

\* a script sets or removes another attribute of the element
SetAttribute(e, name, v) ==
    /\ v # attrs[e][name]
    /\ Becomes(setAttribute(State, e, name, v))

\* the microtask checkpoint after a script that changed attributes
DeliverMutations ==
    /\ PendingRecords(State)
    /\ Becomes(notifyAll(State, 1))

\* a script calls codeInput.registerTemplate
RegisterTemplate(templateName, tid) ==
    /\ templateName \in Names
    /\ Step(registerTemplate(State, templateName, tid),
            IF tid \in MalformedDescriptors
            THEN [NoCall EXCEPT !.op = "registerTemplate malformed"]
            ELSE NoCall)

\* the window's load event, a task: no mutation record is undelivered
WindowLoad ==
    /\ ~loadFired
    /\ ~PendingRecords(State)
    /\ Becomes(windowLoad(State))

\* a script assigns element.value
SetValue(e, v) ==
    /\ e \in Elems
    /\ Step(valueSetter(State, e, v), [NoCall EXCEPT !.op = "setValue", !.elem = e, !.text = v])

\* the user edits the textarea of an element in the document: an input event
Input(e, v) ==
    /\ textareaElement[e] # NoNode
    /\ isConnected[e]
    /\ ~PendingRecords(State)
    /\ Step(textareaInput(State, e, v), [NoCall EXCEPT !.op = "input", !.elem = e, !.text = v])

\* the form that owns the element is reset
FormReset(e) ==
    /\ e \in Elems
    /\ Step(formResetCallback(State, e), [NoCall EXCEPT !.op = "formReset", !.elem = e])

\* Spec: one element under every interleaving of its life cycle with the
\* registry and the load event
Next ==
    \/ Attach("e1")
    \/ Detach("e1")
    \/ \E n \in Names \cup {Null} : SetTemplateAttribute("e1", n)
    \/ DeliverMutations
    \/ \E n \in Names, tid \in SpecDescriptors : RegisterTemplate(n, tid)
    \/ WindowLoad

Spec == Init /\ [][Next]_vars

----------------------------------------------------------------------------
(* SpecFlush: two elements, written into the page with or without a        *)
(* template attribute, attached and detached while templates are           *)
(* registered, with well-formed and malformed descriptors, before and      *)
(* after the load event.  The attribute is the one of the markup: it does  *)
(* not change once the element has been attached.                          *)

InQueue(e, k) ==
    \E i \in 1..Len(templateNotYetRegisteredQueue[k]) : templateNotYetRegisteredQueue[k][i] = e

NeverAttached(e) ==
    /\ ~isConnected[e]
    /\ template[e] = Undefined
    /\ \A k \in QueueKeys : ~InQueue(e, k)

NextFlush ==
    \/ \E e \in Elems, n \in Names : NeverAttached(e) /\ SetTemplateAttribute(e, n)
    \/ \E e \in Elems : Attach(e)
    \/ Detach("e1")
    \/ \E n \in Names, tid \in Descriptors : RegisterTemplate(n, tid)
    \/ WindowLoad

SpecFlush == Init /\ [][NextFlush]_vars

----------------------------------------------------------------------------
(* SpecRender: one element, texts assigned to and typed into it once its   *)
(* textarea exists; its template attribute may come to name a template     *)
(* that is not registered.                                                 *)

NextRender ==
    \/ Attach("e1")
    \/ \E tid \in RenderDescriptors : RegisterTemplate("X", tid)
    \/ WindowLoad
    \/ SetTemplateAttribute("e1", "Y")
    \/ DeliverMutations
    \/ \E v \in RenderTexts : textareaElement["e1"] # NoNode /\ SetValue("e1", v)
    \/ \E v \in RenderTexts : Input("e1", v)

SpecRender == Init /\ [][NextRender]_vars

----------------------------------------------------------------------------
(* SpecAttrs: one element whose lang attribute and whose name attribute,   *)
(* one of textareaSyncAttributes, are set, changed and removed before and  *)
(* after setup, while the element is in the document and while it is not;  *)
(* its template is code-like (prism) or not (characterLimit).              *)

AttrDescriptors == {"prism", "characterLimit"}

NextAttrs ==
    \/ Attach("e1")
    \/ Detach("e1")
    \/ \E tid \in AttrDescriptors : usedTemplates["X"] = Undefined /\ RegisterTemplate("X", tid)
    \/ WindowLoad
    \/ \E v \in AttrValues \cup {Null} : SetAttribute("e1", "lang", v)
    \/ \E v \in {"js", Null} : SetAttribute("e1", "name", v)
    \/ DeliverMutations

SpecAttrs == Init /\ [][NextAttrs]_vars

----------------------------------------------------------------------------
(* SpecSync: as SpecAttrs, with two sync attributes instead of lang: name  *)
(* and aria-label, which the wildcard of textareaSyncAttributes matches    *)

NextSync ==
    \/ Attach("e1")
    \/ Detach("e1")
    \/ \E tid \in AttrDescriptors : usedTemplates["X"] = Undefined /\ RegisterTemplate("X", tid)
    \/ WindowLoad
    \/ \E v \in AttrValues \cup {Null} : SetAttribute("e1", "name", v)
    \/ \E v \in {"js", Null} : SetAttribute("e1", "aria-label", v)
    \/ DeliverMutations

SpecSync == Init /\ [][NextSync]_vars

----------------------------------------------------------------------------
(* SpecListeners: one element and the page's event listeners, added and   *)
(* removed before and after the element is set up                          *)

NextListeners ==
    \/ Attach("e1")
    \/ usedTemplates["X"] = Undefined /\ RegisterTemplate("X", "prism")
    \/ WindowLoad
    \/ \E type \in EventTypes, fn \in Listeners : AddEventListener("e1", type, fn)
    \/ \E type \in EventTypes, fn \in Listeners : RemoveEventListener("e1", type, fn)
    \/ \E type \in EventTypes : DispatchEvent("e1", type)

SpecListeners == Init /\ [][NextListeners]_vars

----------------------------------------------------------------------------
(* SpecEarly: one element whose attributes change, and from which a        *)
(* listener is removed, while it waits for its template or for the load    *)
(* event, and afterwards                                                   *)

NextEarly ==
    \/ Attach("e1")
    \/ usedTemplates["X"] = Undefined /\ RegisterTemplate("X", "prism")
    \/ WindowLoad
    \/ \E n \in {"X", Null} : SetTemplateAttribute("e1", n)
    \/ \E v \in {"js", Null} : SetAttribute("e1", "lang", v)
    \/ \E v \in {"js", Null} : SetAttribute("e1", "name", v)
    \/ DeliverMutations
    \/ \E type \in {"change", "input"} : RemoveEventListener("e1", type, "L1")

SpecEarly == Init /\ [][NextEarly]_vars

----------------------------------------------------------------------------
(* SpecPending: one element to which texts are assigned before and after   *)
(* its textarea exists                                                     *)

PendingTexts == {<<>>, <<"a">>, <<"b">>}

NextPending ==
    \/ Attach("e1")
    \/ usedTemplates["X"] = Undefined /\ RegisterTemplate("X", "prism")
    \/ WindowLoad
    \/ \E v \in PendingTexts : SetValue("e1", v)

SpecPending == Init /\ [][NextPending]_vars

----------------------------------------------------------------------------
(* SpecLang: one element whose lang attribute is written in upper or in    *)
(* lower case, changed and removed                                         *)

LangValues == {"JS", "py"}

NextLang ==
    \/ Attach("e1")
    \/ usedTemplates["X"] = Undefined /\ RegisterTemplate("X", "prism")
    \/ WindowLoad
    \/ \E v \in LangValues \cup {Null} : SetAttribute("e1", "lang", v)
    \/ DeliverMutations

SpecLang == Init /\ [][NextLang]_vars

----------------------------------------------------------------------------
(* SpecValue: one element whose text is given by the value attribute,    *)
(* assigned, typed and reset by the form, before and after its textarea    *)
(* exists                                                                  *)

ValueTexts == {<<>>, <<"b">>}

NextValue ==
    \/ Attach("e1")
    \/ usedTemplates["X"] = Undefined /\ RegisterTemplate("X", "prism")
    \/ WindowLoad
    \/ \E v \in ValueTexts : SetValue("e1", v)
    \/ \E v \in ValueTexts : Input("e1", v)
    \/ \E v \in {"js", Null} : SetAttribute("e1", "value", v)
    \/ DeliverMutations
    \/ FormReset("e1")

SpecValue == Init /\ [][NextValue]_vars

----------------------------------------------------------------------------
(* SpecGate: two elements attached and detached while templates are        *)
(* registered, on a page that evaluates the script of the library before   *)
(* its load event or after it.  The load event of a page that has not had  *)
(* it yet comes eventually.                                                *)

InitGate ==
    /\ \E fired \in BOOLEAN : InitPage(fired)
    /\ text = <<>> /\ escaped = <<>> /\ unescaped = <<>> /\ pc = "idle"

NextGate ==
    \/ \E e \in Elems : Attach(e)
    \/ \E e \in Elems : Detach(e)
    \/ \E n \in Names : usedTemplates[n] = Undefined /\ RegisterTemplate(n, "prism")
    \/ WindowLoad

\* the load event is dispatched: within NextGate, a step of WindowLoad
LoadEvent == ~loadFired /\ loadFired' = TRUE

SpecGate == InitGate /\ [][NextGate]_vars /\ WF_loadFired(LoadEvent)

-----------------------------------------------------------------------------
(* SpecText: escapeHtml, then unescapeHtml, applied to a text *)

InitText ==
    /\ InitElems
    /\ text \in TextInputs
    /\ escaped = <<>> /\ unescaped = <<>> /\ pc = "start"

Escape ==
    /\ pc = "start"
    /\ escaped' = escapeHtml(text)
    /\ pc' = "escaped"
    /\ UNCHANGED <<text, unescaped>>
    /\ UNCHANGED elemVars

Unescape ==
    /\ pc = "escaped"
    /\ unescaped' = unescapeHtml(escaped)
    /\ pc' = "done"
    /\ UNCHANGED <<text, escaped>>
    /\ UNCHANGED elemVars

NextText == Escape \/ Unescape

SpecText == InitText /\ [][NextText]_vars

----------------------------------------------------------------------------
(* Properties *)

\* the element's surfaces have been built
Active(e) == textareaElement[e] # NoNode

\* setup has run through for the element: surfaces, first render, load event
SetUpOnce(e) ==
    /\ Active(e)
    /\ setupRuns[e] = 1
    /\ loadDispatched[e] = 1
    /\ initialValue[e] # UndefinedText
    /\ template[e] # Undefined
    /\ "code-input_loaded" \in classList[e]

\* C1: an element that was queued under the name X, with X registered since
\* and the window loaded, is Active, and its setup ran through exactly
\* once: no step other than the registration and the load event is needed.
C1_QueuedElementSetUpOnce ==
    \A e \in Elems, X \in Names :
        (InQueue(e, X) /\ usedTemplates[X] # Undefined /\ windowLoaded) => SetUpOnce(e)

C1_Witness ==
    /\ InQueue("e1", "X") /\ InQueue("e2", "X")
    /\ Len(templateNotYetRegisteredQueue["X"]) = 2
    /\ SetUpOnce("e1") /\ SetUpOnce("e2")

C2_DefaultFlushed ==
    \A e \in Elems :
        (InQueue(e, Undefined) /\ attrTemplate[e] = Null
            /\ defaultTemplate # Undefined /\ windowLoaded) => SetUpOnce(e)

C2_Step ==
    /\ defaultTemplate # Undefined => defaultTemplate' = defaultTemplate
    /\ (defaultTemplate = Undefined /\ usedTemplates' # usedTemplates) =>
            /\ defaultTemplate' \in Names
            /\ usedTemplates[defaultTemplate'] = Undefined
            /\ usedTemplates'[defaultTemplate'] # Undefined
    /\ \A e \in Elems :
            (InQueue(e, Undefined) /\ ~Active(e) /\ textareaElement'[e] # NoNode) =>
                template'[e] = usedTemplates'[defaultTemplate']

\* C2: the first successful registration sets the default template, no
\* later step changes it; once it is set and the window has loaded, every
\* element without a template attribute that was queued under the default
\* sentinel is Active, set up once, and it became Active with the template
\* registered under the default name.
C2_FirstTemplateIsDefault == []C2_DefaultFlushed /\ [][C2_Step]_vars

C2_Witness ==
    /\ InQueue("e1", Undefined) /\ InQueue("e2", Undefined)
    /\ defaultTemplate = "Y" /\ usedTemplates["X"] # Undefined
    /\ SetUpOnce("e1") /\ SetUpOnce("e2")

\* C4: a registerTemplate call with a malformed descriptor throws and
\* changes nothing: the registry, the queues, the load listeners and every
\* element are as before the call.
C4_MalformedLeavesRegistryUnchanged ==
    [][lastCall'.op = "registerTemplate malformed" =>
            /\ lastThrew'
            /\ UNCHANGED <<usedTemplates, defaultTemplate, templateNotYetRegisteredQueue,
                           loadListeners, template, textareaElement, preElement,
                           codeElement, classList, observers, setupRuns,
                           loadDispatched>>]_vars

C4_Witness ==
    /\ lastCall.op = "registerTemplate malformed"
    /\ lastThrew
    /\ windowLoaded
    /\ usedTemplates["X"] # Undefined
    /\ usedTemplates["Y"] = Undefined /\ InQueue("e2", "Y") /\ ~Active("e2")

\* the template name the element asks for now: its attribute, or the default
RequestedName(e) == IF attrTemplate[e] = Null THEN defaultTemplate ELSE attrTemplate[e]

RequestedRegistered(e) ==
    /\ RequestedName(e) \in Names
    /\ usedTemplates[RequestedName(e)] # Undefined

\* C3: no step makes an element Active while the template name it asks for
\* at that moment (its template attribute, or the default without one) is
\* not registered.
C3_NeverActiveWhileUnregistered ==
    [][\A e \in Elems :
          (~Active(e) /\ textareaElement'[e] # NoNode) => RequestedRegistered(e)']_vars

\* C5: the textarea, pre and code nodes of an element are created at most
\* once and stay the same nodes from then on, through detachment,
\* re-attachment and registry flushes; the code-input_load event has been
\* dispatched once on an Active element and never on any other.
C5Inv ==
    \A e \in Elems :
        /\ setupRuns[e] <= 1
        /\ textareaElement[e] \in {NoNode, Node("textarea", 1)}
        /\ preElement[e] \in {NoNode, Node("pre", 1)}
        /\ codeElement[e] \in {NoNode, Node("code", 1)}
        /\ loadDispatched[e] = IF Active(e) THEN 1 ELSE 0

C5Step ==
    \A e \in Elems :
        Active(e) => /\ textareaElement'[e] = textareaElement[e]
                     /\ preElement'[e] = preElement[e]
                     /\ codeElement'[e] = codeElement[e]
                     /\ loadDispatched'[e] = loadDispatched[e]

C5_SurfacesCreatedOnce == []C5Inv /\ [][C5Step]_vars

\* Active, detached and attached again, with a flush from the registry since
C5_Witness ==
    /\ Active("e1")
    /\ isConnected["e1"]
    /\ Len(observers["e1"]) = 2
    /\ InQueue("e1", "Y") /\ usedTemplates["Y"] # Undefined
    /\ usedTemplates["X"] # Undefined

\* C6: no element is Active before the window's load event, whatever the
\* order of attachments and registrations before it.
C6_NoActiveBeforeLoad == \A e \in Elems : Active(e) => windowLoaded

\* Active after the load event, attached and its template registered before it
C6_Witness ==
    /\ Active("e1")
    /\ windowLoaded
    /\ InQueue("e1", "X")
    /\ lastCall.op = "none"
    /\ loadListeners = <<>>
    /\ classList["e1"] = {"code-input_registered", "code-input_loaded"}

\* escaping character by character: & and < become entities, every other
\* character stays
Entity(c) == IF c = "&" THEN AMP ELSE IF c = "<" THEN LT ELSE <<c>>

RECURSIVE CharEscape(_)
CharEscape(t) == IF t = <<>> THEN <<>> ELSE Entity(Head(t)) \o CharEscape(Tail(t))

\* the step just taken rendered a text on an Active element
Rendered(e) ==
    /\ lastCall.op \in {"setValue", "input"}
    /\ lastCall.elem = e
    /\ Active(e)

\* C7: after a text ending in a newline has been rendered on an Active
\* element, assigned or typed, the code element was given the escaped text
\* followed by exactly one space, and the element's value and the
\* textarea's value are the text itself, without the space.
C7_FinalNewlineGetsSpace ==
    \A e \in Elems :
        (Rendered(e) /\ EndsWithNewline(lastCall.text)) =>
            /\ codeInnerHTML[e] = CharEscape(lastCall.text) \o <<" ">>
            /\ value_[e] = lastCall.text
            /\ textareaValue[e] = lastCall.text

C7_Witness ==
    /\ Rendered("e1")
    /\ lastCall.text = <<"a", ">", " ", NL>>
    /\ codeInnerHTML["e1"] = <<"a", ">", " ", NL, " ">>
    /\ ~lastThrew

\* C8: after a text that does not end in a newline has been rendered on an
\* Active element, reading the element's value gives the text itself,
\* whatever &, <, > or entities it holds.
C8_ValueReadsBack ==
    \A e \in Elems :
        (Rendered(e) /\ ~EndsWithNewline(lastCall.text)) => value_[e] = lastCall.text

C8_Witness ==
    /\ Rendered("e1")
    /\ lastCall.op = "setValue"
    /\ lastCall.text = LT
    /\ value_["e1"] = LT
    /\ codeInnerHTML["e1"] = <<"&", "a", "m", "p", ";", "l", "t", ";">>

ANewlineB == <<"a", NL, "b">>

\* C9 as the claim states it: assigning a, newline, b gives the textarea
\* a, newline, b and the code element a, newline, space, b.
C9_SpaceAfterEveryNewline ==
    \A e \in Elems :
        (Rendered(e) /\ lastCall.op = "setValue" /\ lastCall.text = ANewlineB) =>
            /\ textareaValue[e] = ANewlineB
            /\ codeInnerHTML[e] = <<"a", NL, " ", "b">>

\* C9: assigning a, newline, b to the value of an Active element gives the
\* textarea a, newline, b and the code element the same three characters:
\* the text does not end in a newline, so no space is added.
C9_InnerNewlineGetsNoSpace ==
    \A e \in Elems :
        (Rendered(e) /\ lastCall.op = "setValue" /\ lastCall.text = ANewlineB) =>
            /\ textareaValue[e] = ANewlineB
            /\ value_[e] = ANewlineB
            /\ codeInnerHTML[e] = ANewlineB

C9_Witness ==
    /\ Rendered("e1")
    /\ lastCall.op = "setValue"
    /\ lastCall.text = ANewlineB
    /\ ~lastThrew

\* the text holds none of the entities unescapeHtml replaces
RECURSIVE Occurs(_, _)
Occurs(pat, t) ==
    /\ Len(t) >= Len(pat)
    /\ \/ SubSeq(t, 1, Len(pat)) = pat
       \/ Occurs(pat, Tail(t))

NoEntities(t) == ~Occurs(AMP, t) /\ ~Occurs(LT, t) /\ ~Occurs(GT, t)

\* C10: escapeHtml rewrites & and < and nothing else, and unescapeHtml
\* gives back the text escapeHtml was given when that text holds no entity
\* of its own.
C10_UnescapeInvertsEscape ==
    /\ pc # "start" => escaped = CharEscape(text)
    /\ (pc = "done" /\ NoEntities(text)) => unescaped = text

C10_Witness ==
    /\ pc = "done"
    /\ text = <<"&", "<", ">", "&">>
    /\ escaped = AMP \o LT \o <<">">> \o AMP
    /\ unescaped = text

\* some mutation record has not been delivered yet
Pending == PendingRecords(State)

\* the number of calls of the highlight function for the element in a trace
Highlights(trace, e) ==
    Cardinality({i \in 1..Len(trace) : trace[i].call = "highlight" /\ trace[i].elem = e})

IsCodeLike(e) == template[e] # Undefined /\ Descriptor(template[e]).isCode = "true"

\* the step delivers a change of lang from "js" to "py", and nothing else,
\* to a connected Active element with a code-like template
LangChangeDelivered(e) ==
    /\ isConnected[e] /\ Active(e) /\ IsCodeLike(e)
    /\ Language("js") \in codeClassList[e]
    /\ attrs[e]["lang"] = "py"
    /\ observerLive[e]
    /\ \A i \in 1..Len(observers[e]) :
           observers[e][i] = <<[attributeName |-> "lang", oldValue |-> "js"]>>
    /\ ~Pending' /\ isConnected'[e] /\ observerLive'[e]

\* C11: when a change of the lang attribute from "js" to "py" is delivered
\* to a connected Active element with a code-like template, neither the pre
\* nor the code element keeps the class language-js, both have the class
\* language-py, and the highlight function is called once.
C11_LangClassOnBothNodes ==
    [][\A e \in Elems :
          LangChangeDelivered(e) =>
              /\ Language("js") \notin codeClassList'[e] \cup preClassList'[e]
              /\ Language("py") \in codeClassList'[e]
              /\ Language("py") \in preClassList'[e]
              /\ Highlights(lastTrace', e) = 1]_vars

\* the sync attributes of the model
SyncNames == {n \in AttrNames : n \in textareaSyncAttributes \/ MatchesWildcard(n)}

\* the observer the element holds has a record of the attribute
ChangePending(e, n) ==
    /\ observerLive[e]
    /\ \E j \in 1..Len(observers[e][Len(observers[e])]) :
           observers[e][Len(observers[e])][j].attributeName = n

\* the textarea has the attribute with the host's value, or lacks it as the host does
Mirrored(e, n) == textareaAttrs[e][n] = attrs[e][n]

\* C12: on a connected Active element whose textarea mirrors every sync
\* attribute but the ones with an undelivered change, the step that runs
\* the pending observer callbacks, whatever the number of changes in the
\* batch, leaves the textarea mirroring every sync attribute of the host.
C12_SyncAttributesMirrored ==
    [][\A e \in Elems :
          ( /\ isConnected[e] /\ Active(e) /\ observerLive[e]
            /\ \A n \in SyncNames : ChangePending(e, n) \/ Mirrored(e, n)
            /\ Pending /\ ~Pending' /\ isConnected'[e] /\ observerLive'[e] )
          => \A n \in SyncNames : Mirrored(e, n)']_vars

\* no page function was called for the element
NoCallsFor(trace, e) == \A i \in 1..Len(trace) : trace[i].elem # e

\* some mutation record of the element has not been delivered yet
PendingFor(e) == \E i \in 1..Len(observers[e]) : observers[e][i] # <<>>

C20_DetachStep(e) ==
    (isConnected[e] /\ ~isConnected'[e]) =>
        /\ textareaElement'[e] = textareaElement[e]
        /\ preElement'[e] = preElement[e]
        /\ codeElement'[e] = codeElement[e]
        /\ template'[e] = template[e]
        /\ value_'[e] = value_[e]

C20_WhileDetached(e) ==
    ( /\ ~isConnected[e] /\ ~isConnected'[e]
      /\ attrs'[e] # attrs[e] \/ (PendingFor(e) /\ ~PendingFor(e)') ) =>
        /\ NoCallsFor(lastTrace', e)
        /\ ~lastThrew'
        /\ textareaAttrs'[e] = textareaAttrs[e]
        /\ placeholder'[e] = placeholder[e]
        /\ codeClassList'[e] = codeClassList[e]
        /\ preClassList'[e] = preClassList[e]
        /\ classList'[e] = classList[e]
        /\ codeInnerHTML'[e] = codeInnerHTML[e]
        /\ template'[e] = template[e]
        /\ value_'[e] = value_[e]
        /\ textareaValue'[e] = textareaValue[e]

\* C20: the step that detaches an element leaves its textarea, pre and code
\* nodes, its template and its value as they were; and while the element
\* is out of the document, neither a change of one of its attributes nor
\* the delivery of mutation records calls a plugin hook or the highlight
\* function, touches the textarea's attributes or placeholder, the
\* language classes, the rendered text, the template or the value.
C20_DetachedElementIsInert ==
    [][\A e \in Elems : C20_DetachStep(e) /\ C20_WhileDetached(e)]_vars

\* out of the document with its surfaces, after lang and name changed and
\* an observer left over from an earlier connectedCallback was notified
C20_Witness ==
    /\ ~isConnected["e1"] /\ Active("e1")
    /\ Len(observers["e1"]) = 1 /\ observers["e1"][1] = <<>>
    /\ attrs["e1"]["lang"] = "py" /\ codeClassList["e1"] = {Language("js")}
    /\ attrs["e1"]["name"] = "js" /\ textareaAttrs["e1"]["name"] = Null
    /\ lastTrace = <<>>

\* C17: once a template name is registered, the queue of that name is
\* empty, and once the default template is set, so is the queue kept under
\* the default sentinel: a registration removes the entries it flushes.
C17_FlushedQueueIsEmpty ==
    /\ \A n \in Names : usedTemplates[n] # Undefined => templateNotYetRegisteredQueue[n] = <<>>
    /\ defaultTemplate # Undefined => templateNotYetRegisteredQueue[Undefined] = <<>>

\* the number of entries of the queue of key k that are the element
Occurrences(e, k) ==
    Cardinality({i \in 1..Len(templateNotYetRegisteredQueue[k]) :
                     templateNotYetRegisteredQueue[k][i] = e})

RECURSIVE SumOver(_, _)
SumOver(f, S) ==
    IF S = {} THEN 0
    ELSE LET k == CHOOSE x \in S : TRUE IN f[k] + SumOver(f, S \ {k})

\* C18: an element occurs at most once in all the queues taken together.
C18_AtMostOnceInQueues ==
    \A e \in Elems : SumOver([k \in QueueKeys |-> Occurrences(e, k)], QueueKeys) <= 1

\* a change of the element's template attribute has not been delivered yet
TemplateChangePending(e) ==
    \E i \in 1..Len(observers[e]) : \E j \in 1..Len(observers[e][i]) :
        observers[e][i][j].attributeName = "template"

\* C19: once an element has a template, a step gives it another one, or
\* none, only when it delivers a change of the element's template
\* attribute: attaching, detaching and registering templates leave
\* element.template alone.
C19_TemplateChangesOnlyByAttribute ==
    [][\A e \in Elems :
          (template[e] # Undefined /\ template'[e] # template[e]) =>
              TemplateChangePending(e)]_vars

\* the page's function fn is attached to the list for the type, bound to e
Listed(list, e, type, fn) ==
    {j \in 1..Len(list) : /\ list[j].type = type
                          /\ list[j].callback.kind = "function"
                          /\ list[j].callback.fn = fn
                          /\ list[j].callback.this = e}

OnTextarea(e, type, fn) == Listed(textareaListeners[e], e, type, fn)
OnHost(e, type, fn) == Listed(hostListeners[e], e, type, fn)

\* the attachments of fn for the type that wait for code-input_load
Deferred(e, type, fn) ==
    {i \in 1..Len(hostListeners[e]) : /\ hostListeners[e][i].type = "code-input_load"
                                      /\ hostListeners[e][i].callback.kind = "attach"
                                      /\ hostListeners[e][i].callback.attachType = type
                                      /\ hostListeners[e][i].callback.fn = fn}

\* the type of the event the last step dispatched, Null if it dispatched none
Dispatched ==
    IF lastCall.op = "input" THEN "input"
    ELSE IF lastCall.op = "dispatchEvent" THEN lastCall.type ELSE Null

\* how often the last step invoked fn with e as `this` for an event of the type
Invocations(e, type, fn) ==
    {k \in 1..Len(lastTrace) : /\ lastTrace[k].call = "listener"
                               /\ lastTrace[k].plugin = fn
                               /\ lastTrace[k].elem = e
                               /\ lastTrace[k].args = <<type>>}

(* C13: a listener added to the element for a type of textareaSyncEvents   *)
(* before the element is Active waits for code-input_load; the step that   *)
(* makes the element Active attaches it to the textarea, bound to the      *)
(* element; every event of the type on the textarea then invokes it with   *)
(* the element as `this`; and it is never attached to the element itself.  *)
C13_DeferredListenerReachesTextarea ==
    [][\A e \in Elems, type \in textareaSyncEvents, fn \in Listeners :
          /\ (/\ lastCall'.op = "addEventListener"
              /\ lastCall'.elem = e /\ lastCall'.type = type /\ lastCall'.listener = fn
              /\ ~Active(e))
                => Deferred(e, type, fn)' # {}
          /\ (~Active(e) /\ Active(e)' /\ Deferred(e, type, fn) # {})
                => OnTextarea(e, type, fn)' # {}
          /\ (Dispatched' = type /\ lastCall'.elem = e /\ OnTextarea(e, type, fn) # {})
                => Invocations(e, type, fn)' # {}
          /\ OnHost(e, type, fn)' = {}]_vars

C13_Witness ==
    /\ Deferred("e1", "input", "L1") # {}
    /\ lastCall.op = "dispatchEvent" /\ lastCall.type = "input" /\ lastCall.elem = "e1"
    /\ Invocations("e1", "input", "L1") # {}

\* the entries of the list other than those of fn for the type
Others(list, type, fn) ==
    {list[j] : j \in {j \in 1..Len(list) :
                        ~(list[j].type = type /\ list[j].callback.fn = fn)}}

Entries(list) == {list[j] : j \in 1..Len(list)}

(* C14: on an Active element removeEventListener("change", L), for a       *)
(* listener L attached for change, detaches a bound callback of L and      *)
(* leaves every listener of another function, or of another type,          *)
(* attached.                                                               *)
C14_RemoveChangeDetachesOnlyItsOwn ==
    [][\A e \in Elems, fn \in Listeners :
          (/\ lastCall'.op = "removeEventListener"
           /\ lastCall'.elem = e /\ lastCall'.type = "change" /\ lastCall'.listener = fn
           /\ Active(e)
           /\ OnTextarea(e, "change", fn) # {})
            => /\ Others(textareaListeners[e], "change", fn) \subseteq Entries(textareaListeners'[e])
               /\ hostListeners'[e] = hostListeners[e]
               /\ Cardinality(OnTextarea(e, "change", fn)') < Cardinality(OnTextarea(e, "change", fn))]_vars

(* C15: for every event type, once removeEventListener(type, L) has        *)
(* returned, L is attached for the type nowhere, and not waiting to be     *)
(* attached, so no later event of the type invokes it.                     *)
C15_RemovedListenerIsGone ==
    [][\A e \in Elems, type \in EventTypes, fn \in Listeners :
          (/\ lastCall'.op = "removeEventListener"
           /\ lastCall'.elem = e /\ lastCall'.type = type /\ lastCall'.listener = fn
           /\ ~lastThrew')
            => /\ OnTextarea(e, type, fn)' = {}
               /\ OnHost(e, type, fn)' = {}
               /\ Deferred(e, type, fn)' = {}]_vars

\* how many callbacks of fn are attached for the type, or wait to be
Attachments(e, type, fn) ==
    Cardinality(OnTextarea(e, type, fn)) + Cardinality(OnHost(e, type, fn))
        + Cardinality(Deferred(e, type, fn))

(* C16: a listener added twice for one type is invoked once by each event  *)
(* of the type, and one removeEventListener for it leaves no callback of   *)
(* it attached for the type.                                               *)
C16_AddingTwiceIsIdempotent ==
    [][\A e \in Elems, type \in EventTypes, fn \in Listeners :
          /\ (Dispatched' = type /\ lastCall'.elem = e)
                => Cardinality(Invocations(e, type, fn)') <= 1
          /\ (/\ lastCall'.op = "removeEventListener"
              /\ lastCall'.elem = e /\ lastCall'.type = type /\ lastCall'.listener = fn
              /\ ~lastThrew'
              /\ Attachments(e, type, fn) >= 2)
                => Attachments(e, type, fn)' = 0]_vars

(* C21: an element whose surfaces exist always has a template: a template  *)
(* attribute that comes to name an unregistered template, on an Active     *)
(* element or before a re-attachment, raises no error and never leaves     *)
(* the element without a template.                                         *)
C21_ActiveElementHasTemplate ==
    \A e \in Elems : Active(e) => template[e] \in Descriptors

\* the step delivers mutation records of the element to its observers
Delivered(e) == PendingFor(e) /\ ~PendingFor(e)' /\ isConnected'[e]

(* C22: while a connected element is not Active yet, the delivery of its   *)
(* attribute changes and a removeEventListener for a type of               *)
(* textareaSyncEvents raise no error.                                      *)
C22_EarlyOperationsDoNotThrow ==
    [][\A e \in Elems :
          (/\ isConnected[e]
           /\ ~Active(e)
           /\ \/ Delivered(e)
              \/ /\ lastCall'.op = "removeEventListener"
                 /\ lastCall'.elem = e
                 /\ lastCall'.type \in textareaSyncEvents)
            => ~lastThrew']_vars

\* what the step did to the element, in order: each entry of the trace as
\* the pair of what was done and the plugin, template or listener called
DoneTo(trace, e) ==
    LET t == SelectSeq(trace, LAMBDA c : c.elem = e)
    IN  [i \in 1..Len(t) |-> <<t[i].call, t[i].plugin>>]

\* the hook of each plugin of the list, in list order
HookCalls(eventName, plugins) == [i \in 1..Len(plugins) |-> <<eventName, plugins[i]>>]

\* one render with the template tid
RenderCalls(tid) ==
    << <<"innerHTML", Null>> >>
        \o HookCalls("beforeHighlight", Descriptor(tid).plugins)
        \o << <<"highlight", tid>> >>
        \o HookCalls("afterHighlight", Descriptor(tid).plugins)

SetupCalls(tid) ==
    HookCalls("beforeElementsAdded", Descriptor(tid).plugins)
        \o << <<"createElement", Null>> >>
        \o HookCalls("afterElementsAdded", Descriptor(tid).plugins)
        \o RenderCalls(tid)
        \o << <<"code-input_load", Null>> >>

CountOf(calls, what) == Cardinality({i \in 1..Len(calls) : calls[i][1] = what})

(* C23: the step that makes an element Active calls every plugin's         *)
(* beforeElementsAdded hook, creates the nodes (the textarea with the sync *)
(* attributes of the element, initialValue captured), calls every plugin's *)
(* afterElementsAdded hook, renders once (beforeHighlight, highlight,      *)
(* afterHighlight) and only then dispatches code-input_load, in this       *)
(* order, each of them once; the plugins and the highlight function are    *)
(* those of one template, the one the element has at that moment.          *)
C23_SetupOrder ==
    [][\A e \in Elems :
          (~Active(e) /\ Active(e)') =>
              LET calls == DoneTo(lastTrace', e)
              IN  /\ \E tid \in ValidDescriptors :
                         LET expected == SetupCalls(tid)
                         IN  /\ Len(calls) >= Len(expected)
                             /\ SubSeq(calls, 1, Len(expected)) = expected
                             /\ \A what \in {"beforeElementsAdded", "createElement",
                                             "afterElementsAdded", "code-input_load"} :
                                    CountOf(calls, what) = CountOf(expected, what)
                  /\ initialValue'[e] = unescapeHtml(innerHTML[e])
                  /\ \A n \in AttrNames :
                         (n \in textareaSyncAttributes \/ MatchesWildcard(n))
                             => textareaAttrs'[e][n] = attrs[e][n]]_vars

C23_Witness ==
    /\ template["e1"] = "characterLimit"
    /\ CountOf(DoneTo(lastTrace, "e1"), "createElement") = 1
    /\ CountOf(DoneTo(lastTrace, "e1"), "code-input_load") = 1
    /\ textareaAttrs["e1"]["name"] = "js"

\* the entries of a trace that concern the element
ForElem(trace, e) == SelectSeq(trace, LAMBDA c : c.elem = e)

\* the argument list the highlight function of the template is to be given
HighlightArgs(tid, e) ==
    IF Descriptor(tid).includeCodeInputInHighlightFunc = "true" THEN <<"code", e>> ELSE <<"code">>

\* every write of the code element in the trace is followed by the hooks and
\* the highlight function of one template, and highlight is not called
\* otherwise
RendersComplete(trace, e) ==
    LET t == ForElem(trace, e)
        calls == DoneTo(trace, e)
    IN  /\ \A i \in 1..Len(t) :
               t[i].call = "innerHTML" =>
                   \E tid \in ValidDescriptors :
                       LET expected == RenderCalls(tid)
                           h == i + Len(Descriptor(tid).plugins) + 1
                       IN  /\ i + Len(expected) - 1 <= Len(t)
                           /\ SubSeq(calls, i, i + Len(expected) - 1) = expected
                           /\ t[h].args = HighlightArgs(tid, e)
        /\ CountOf(calls, "highlight") = CountOf(calls, "innerHTML")

(* C24: every render of an Active element writes the escaped text to the   *)
(* code element, then calls beforeHighlight on each plugin of the template *)
(* in list order, then the highlight function of the template once, with   *)
(* the element as second argument exactly if the template asks for it,     *)
(* then afterHighlight on each plugin in list order.                       *)
C24_RenderOrder ==
    \A e \in Elems :
        /\ RendersComplete(lastTrace, e)
        /\ CountOf(DoneTo(lastTrace, e), "innerHTML") > 0
              => LET t == SelectSeq(ForElem(lastTrace, e), LAMBDA c : c.call = "innerHTML")
                 IN  t[Len(t)].args = <<escapeHtml(DisplayCopy(value_[e]))>>

\* the last step assigned element.value of e, or was an input event on its textarea
ValueOrInputStep(e) ==
    /\ lastCall.elem = e
    /\ \/ lastCall.op \in {"setValue", "input"}
       \/ lastCall.op = "dispatchEvent" /\ lastCall.type = "input"

(* C25: on an Active element each assignment of value and each input       *)
(* event on the textarea calls the highlight function exactly once, and    *)
(* ignoreValueUpdate is false whenever no update is running.               *)
C25_OneHighlightPerChange ==
    \A e \in Elems :
        /\ (Active(e) /\ ValueOrInputStep(e)) => Highlights(lastTrace, e) = 1
        /\ ~ignoreValueUpdate[e]

\* the number of renders of e in a trace: the writes of its code element
Renders(trace, e) ==
    Cardinality({i \in 1..Len(trace) : trace[i].call = "innerHTML" /\ trace[i].elem = e})

\* the element had a render held back when the step began
HadPending(e) == ~Active(e) /\ loadCallbacks[e] # <<>>

(* C26: when an element with renders held back becomes Active, only the    *)
(* latest value held back is rendered, by one render after the first       *)
(* render of setup, and the value of the element is then that value.       *)
C26_OnlyLatestPendingRendered ==
    [][\A e \in Elems :
          (HadPending(e) /\ Active(e)') =>
              /\ Renders(lastTrace', e) = 2
              /\ value_'[e] = loadCallbacks[e][Len(loadCallbacks[e])]]_vars

\* the language classes the display nodes of e carry
LanguageClasses(e) ==
    {c \in codeClassList[e] \cup preClassList[e] :
        \E lang \in AttrValues \cup {"JS", "PY", "none"} : c = Language(lang)}

(* C27: a display node carries a class language-<lang> only if the         *)
(* template of the element has isCode true: for a template with isCode     *)
(* false neither setup nor a change of lang adds one.                      *)
C27_LanguageClassOnlyForCode ==
    \A e \in Elems : (Active(e) /\ LanguageClasses(e) # {}) => IsCodeLike(e)

\* the step delivers one change of lang, from the value old to another
\* value, and nothing else, to a connected Active element
OneLangChangeDelivered(e, old) ==
    /\ isConnected[e] /\ Active(e) /\ observerLive[e]
    /\ attrs[e]["lang"] # Null
    /\ \A i \in 1..Len(observers[e]) :
           observers[e][i] = <<[attributeName |-> "lang", oldValue |-> old]>>
    /\ Pending /\ ~Pending' /\ isConnected'[e] /\ observerLive'[e]

(* C28: when a change of lang from one value to another is delivered to a  *)
(* connected Active element, the placeholder of the textarea becomes the   *)
(* new value if it was the old value, compared without regard to case,     *)
(* and is left as it was otherwise.                                        *)
C28_PlaceholderFollowsLang ==
    [][\A e \in Elems : \A old \in LangValues :
          OneLangChangeDelivered(e, old) =>
              IF toLowerCase(placeholder[e]) = toLowerCase(old)
              THEN placeholder'[e] \in {attrs[e]["lang"], toLowerCase(attrs[e]["lang"])}
              ELSE placeholder'[e] = placeholder[e]]_vars

\* the attributeChanged hook calls made for e in a trace
AttributeChangedCalls(trace, e) ==
    SelectSeq(trace, LAMBDA c : c.elem = e /\ c.call = "attributeChanged")

\* the changes of attributes of e that have not been delivered: the records
\* of the observer the element holds
Changes(e) == observers[e][Len(observers[e])]

\* the step delivers the pending changes to a connected element with a template
ChangesDelivered(e) ==
    /\ isConnected[e] /\ observerLive[e] /\ template[e] \in ValidDescriptors
    /\ Changes(e) # <<>>
    /\ ~PendingFor(e)' /\ isConnected'[e]

(* C29: when the changes of observed attributes of a connected element are *)
(* delivered, the attributeChanged hook of each plugin of its template is  *)
(* called once per change; for a single change the calls have the          *)
(* arguments (name, old value, new value) and come before anything else    *)
(* the step does for the element.                                          *)
C29_AttributeChangedHookOncePerChange ==
    [][\A e \in Elems :
          ChangesDelivered(e) =>
              LET plugins == Descriptor(template[e]).plugins
                  done == ForElem(lastTrace', e)
              IN  /\ Len(AttributeChangedCalls(lastTrace', e)) = Len(Changes(e)) * Len(plugins)
                  /\ Len(Changes(e)) = 1 =>
                         \A i \in 1..Len(plugins) :
                             /\ i <= Len(done)
                             /\ done[i].call = "attributeChanged"
                             /\ done[i].plugin = plugins[i]
                             /\ done[i].args = <<Changes(e)[1].attributeName,
                                                 Changes(e)[1].oldValue,
                                                 attrs[e][Changes(e)[1].attributeName]>>]_vars

(* C30: whenever an element is Active and has a template, the host has     *)
(* the class code-input_pre-element-styled if and only if that template    *)
(* has preElementStyled true.                                              *)
C30_PreElementStyledClassMatchesTemplate ==
    \A e \in Elems :
        (Active(e) /\ template[e] \in ValidDescriptors) =>
            ("code-input_pre-element-styled" \in classList[e]
                 <=> Descriptor(template[e]).preElementStyled = "true")

\* the last step was a reset of the form of e
ResetStep(e) == lastCall.op = "formReset" /\ lastCall.elem = e

(* C31: initialValue does not change once the element is Active, and a     *)
(* form reset of an Active element leaves its value and the value of its   *)
(* textarea equal to initialValue and its code element holding the         *)
(* rendering of initialValue, whatever the value was before.               *)
C31_ResetRestoresInitialValue ==
    [][\A e \in Elems :
          Active(e) =>
              /\ initialValue'[e] = initialValue[e]
              /\ ResetStep(e)' =>
                     /\ value_'[e] = initialValue[e]
                     /\ textareaValue'[e] = initialValue[e]
                     /\ codeInnerHTML'[e] = escapeHtml(DisplayCopy(initialValue[e]))]_vars

\* an element set up with the value attribute "js", whose attribute was
\* then removed and the removal delivered, has been reset
C31_Witness ==
    /\ Active("e1") /\ ResetStep("e1")
    /\ initialValue["e1"] = Chars("js")
    /\ attrs["e1"]["value"] = Null /\ ~PendingFor("e1")
    /\ value_["e1"] = Chars("js")
    /\ textareaValue["e1"] = Chars("js")

(* C32: whenever an element is Active and no update is running, its value  *)
(* equals the value of its textarea.                                       *)
C32_ValueEqualsTextareaValue ==
    \A e \in Elems : (Active(e) /\ ~ignoreValueUpdate[e]) => value_[e] = textareaValue[e]

\* setup of e has been handed to runOnceWindowLoaded and has not run
SetupWaits(e) ==
    \E i \in 1..Len(loadListeners) : loadListeners[i] = [kind |-> "setup", elem |-> e]

(* C33: a callback handed to runOnceWindowLoaded is run eventually, on a   *)
(* page that had its load event before the script of the library was       *)
(* evaluated as on one that has it afterwards: an element whose setup      *)
(* waits for the load event eventually becomes Active.                     *)
C33_WaitingSetupEventuallyRuns ==
    \A e \in Elems : SetupWaits(e) ~> Active(e)

====
